---- MODULE Spec2Model ----
(***************************************************************************)
(* Model of the hyper transpiler (src/rust/transpiler/src/lib.rs).         *)
(*                                                                         *)
(* Text is a sequence of one-character strings, so that byte offsets,      *)
(* slices, columns and line terminators are what they are in the program.  *)
(* transpile_ext is a single forward pass; the model steps it one source   *)
(* line at a time: Begin (lex, find_structure, async decision), one        *)
(* LeadingLine step per leading line, one Signature step, one Body step    *)
(* per body line, and Finish (join and trailing newline).                  *)
(* PairSpec adds Rerun: a second call on the same source without the       *)
(* injection pieces, whose steps are compared with the first call's.       *)
(***************************************************************************)
EXTENDS Integers, Sequences, FiniteSets, TLC

VARIABLES
    source,            \* the input text
    include_injection, \* the flag of transpile_ext
    pc,                \* position in transpile_ext
    lines,             \* lex(source)
    leading,           \* find_structure: indices (0-based) of the leading lines
    params,            \* find_structure: indices (0-based) of the parameter lines
    body_start,        \* find_structure: index of the first body line
    is_async,          \* has_await(lines) || has_async_construct(lines)
    output,            \* generated lines
    mappings,          \* source_mappings
    python_pieces,     \* injection pieces (<<>> and unused when the flag is off)
    out_line,          \* index of the next generated line
    level,             \* nesting level of the body loop
    stack,             \* block stack of the body loop
    idx,               \* loop index: into leading, then into lines
    python_code,       \* the joined result
    emitted,           \* history: per generated line, what produced it
    openers,           \* history: per stack entry, the generated line of its header
    closed,            \* history: blocks closed by an `end`
    visits,            \* history: source line numbers in the order they were processed
    earlier            \* history: what an earlier call on the same source returned

vars == << source, include_injection, pc, lines, leading, params, body_start,
           is_async, output, mappings, python_pieces, out_line, level, stack,
           idx, python_code, emitted, openers, closed, visits, earlier >>

(***************************************************************************)
(* Characters and text primitives                                          *)
(***************************************************************************)
SP == " "
NL == "\n"
CR == "\r"
TAB == "\t"

\* [ \t] of the regexes and of content_bounds
IsSpTab(c) == c \in {SP, TAB}

\* Unicode White_Space as seen by str::trim and by \s, on the model's alphabet
IsWhite(c) == c \in {SP, TAB, NL, CR, "\f"}

Letters == {"a","b","c","d","e","f","g","h","i","j","k","l","m","n","o","p","q",
            "r","s","t","u","v","w","x","y","z","_"}
Digits == {"0","1","2","3","4","5","6","7","8","9"}

\* s[a..b) with 0-based byte positions, as Rust slices
Slice(s, a, b) == SubSeq(s, a + 1, b)

\* number of leading characters of s satisfying [ \t]
LeadSpTab(s) ==
    CHOOSE n \in 0..Len(s) :
        /\ \A k \in 1..n : IsSpTab(s[k])
        /\ (n = Len(s) \/ ~IsSpTab(s[n + 1]))

\* number of leading Unicode-whitespace characters
LeadWhite(s) ==
    CHOOSE n \in 0..Len(s) :
        /\ \A k \in 1..n : IsWhite(s[k])
        /\ (n = Len(s) \/ ~IsWhite(s[n + 1]))

\* length of s without its trailing Unicode whitespace
EndWhite(s) ==
    CHOOSE n \in 0..Len(s) :
        /\ \A k \in (n + 1)..Len(s) : IsWhite(s[k])
        /\ (n = 0 \/ ~IsWhite(s[n]))

\* str::trim
Trim(s) == IF EndWhite(s) = 0 THEN <<>> ELSE Slice(s, LeadWhite(s), EndWhite(s))

\* s[p..] starts with w (p is a 0-based position)
StartsWithAt(s, p, w) ==
    /\ p + Len(w) <= Len(s)
    /\ \A k \in 1..Len(w) : s[p + k] = w[k]

StartsWith(s, w) == StartsWithAt(s, 0, w)

\* str::repeat
RECURSIVE Repeat(_, _)
Repeat(s, n) == IF n <= 0 THEN <<>> ELSE s \o Repeat(s, n - 1)

\* [T]::join / Vec<String>::join(sep)
RECURSIVE Join(_, _)
Join(ss, sep) ==
    IF Len(ss) = 0 THEN <<>>
    ELSE IF Len(ss) = 1 THEN ss[1]
    ELSE ss[1] \o sep \o Join(Tail(ss), sep)

\* usize::saturating_sub
SatSub(a, b) == IF a >= b THEN a - b ELSE 0

Max(a, b) == IF a >= b THEN a ELSE b
Min(a, b) == IF a <= b THEN a ELSE b

(***************************************************************************)
(* Keywords and literals of the program                                    *)
(***************************************************************************)
KwEnd == <<"e","n","d">>
KwAsync == <<"a","s","y","n","c">>
KwAwait == <<"a","w","a","i","t">>
KwFor == <<"f","o","r">>
KwWith == <<"w","i","t","h">>
KwCase == <<"c","a","s","e">>
KwMatch == <<"m","a","t","c","h">>
KwElse == <<"e","l","s","e">>
KwElif == <<"e","l","i","f">>
KwExcept == <<"e","x","c","e","p","t">>
KwFinally == <<"f","i","n","a","l","l","y">>

ControlKeywords ==
    { <<"i","f">>, KwFor, <<"w","h","i","l","e">>, KwMatch, <<"d","e","f">>,
      <<"c","l","a","s","s">>, KwElif, KwElse, KwCase, <<"t","r","y">>,
      KwExcept, KwFinally, KwWith }

DedentKeywords == { KwElse, KwElif, KwExcept, KwFinally }

indent == <<SP, SP, SP, SP>>
DefKw == <<"d","e","f">>
AsyncDefKw == <<"a","s","y","n","c",SP,"d","e","f">>
FnOpen == <<SP,"_","_","h","y","p","e","r","_","t","e","m","p","l","a","t","e","_","_","(">>
PassKw == <<"p","a","s","s">>
TQuoteOpen == <<"t","\"","\"","\"">>
TQuoteClose == <<"\"","\"","\"">>

(***************************************************************************)
(* Line classifier: the regexes and classify_line                          *)
(***************************************************************************)
\* length of the run of [ \t] starting at 0-based position p
SpTabRunAt(s, p) == IF p >= Len(s) THEN 0 ELSE LeadSpTab(Slice(s, p, Len(s)))

\* length of the run of \s starting at 0-based position p
WhiteRunAt(s, p) == IF p >= Len(s) THEN 0 ELSE LeadWhite(Slice(s, p, Len(s)))

\* ^[ \t]*<
HTML_LINE(text) ==
    LET n == LeadSpTab(text) IN n < Len(text) /\ text[n + 1] = "<"

\* (if|for|...|with)[ \t(:] at position p
KeywordDelimAt(text, p) ==
    \E kw \in ControlKeywords :
        /\ StartsWithAt(text, p, kw)
        /\ p + Len(kw) < Len(text)
        /\ text[p + Len(kw) + 1] \in {SP, TAB, "(", ":"}

\* ^[ \t]*(async[ \t]+)?(if|for|...|with)[ \t(:]
CONTROL_LINE(text) ==
    LET n == LeadSpTab(text)
        m == SpTabRunAt(text, n + Len(KwAsync))
    IN  \/ KeywordDelimAt(text, n)
        \/ /\ StartsWithAt(text, n, KwAsync)
           /\ m >= 1
           /\ KeywordDelimAt(text, n + Len(KwAsync) + m)

\* ^[ \t]*end[ \t]*$
END_LINE(text) ==
    LET n == LeadSpTab(text)
    IN  /\ StartsWithAt(text, n, KwEnd)
        /\ \A k \in (n + Len(KwEnd) + 1)..Len(text) : IsSpTab(text[k])

\* number of leading characters of an identifier [a-zA-Z_][a-zA-Z0-9_]*
IdentLen(s) ==
    IF Len(s) = 0 \/ s[1] \notin Letters THEN 0
    ELSE CHOOSE n \in 1..Len(s) :
            /\ \A k \in 1..n : s[k] \in Letters \cup Digits
            /\ (n = Len(s) \/ s[n + 1] \notin Letters \cup Digits)

\* ^([a-zA-Z_][a-zA-Z0-9_]*)\s*:\s*(.+)$
TYPE_ANNOTATION(text) ==
    LET n == IdentLen(text)
        c == n + WhiteRunAt(text, n)      \* 0-based position of the colon
    IN  /\ n >= 1
        /\ c < Len(text)
        /\ text[c + 1] = ":"
        /\ \E j \in (c + 1)..(Len(text) - 1) :      \* (.+) is text[j..]
              /\ \A k \in (c + 2)..j : IsWhite(text[k])
              /\ \A k \in (j + 1)..Len(text) : text[k] # NL

\* ^await\s
AWAIT_START(text) ==
    /\ StartsWith(text, KwAwait)
    /\ Len(text) > Len(KwAwait)
    /\ IsWhite(text[Len(KwAwait) + 1])

\* [=(\[,:]\s*await\s
AWAIT_INLINE(text) ==
    \E p \in 1..Len(text) :
        /\ text[p] \in {"=", "(", "[", ",", ":"}
        /\ LET a == p + WhiteRunAt(text, p)    \* 0-based position of `await`
           IN  /\ StartsWithAt(text, a, KwAwait)
               /\ a + Len(KwAwait) < Len(text)
               /\ IsWhite(text[a + Len(KwAwait) + 1])

\* ^\s*async\s+KW\s   (ASYNC_FOR with KwFor, ASYNC_WITH with KwWith)
AsyncHeader(text, kw) ==
    LET n == LeadWhite(text)
        m == WhiteRunAt(text, n + Len(KwAsync))
        k == n + Len(KwAsync) + m
    IN  /\ StartsWithAt(text, n, KwAsync)
        /\ m >= 1
        /\ StartsWithAt(text, k, kw)
        /\ k + Len(kw) < Len(text)
        /\ IsWhite(text[k + Len(kw) + 1])

ASYNC_FOR(text) == AsyncHeader(text, KwFor)
ASYNC_WITH(text) == AsyncHeader(text, KwWith)

classify_line(text) ==
    IF END_LINE(text) THEN "End"
    ELSE IF HTML_LINE(text) THEN "Html"
    ELSE IF CONTROL_LINE(text) THEN "Control"
    ELSE "Python"

(***************************************************************************)
(* lex: str::lines, classification and byte offsets                        *)
(***************************************************************************)
\* 1-based position of the first "\n" of s, 0 when there is none
FirstNL(s) ==
    IF \E k \in 1..Len(s) : s[k] = NL
    THEN CHOOSE k \in 1..Len(s) : s[k] = NL /\ \A j \in 1..(k - 1) : s[j] # NL
    ELSE 0

\* a line without the "\r" of a "\r\n" terminator
StripCR(t) == IF Len(t) > 0 /\ t[Len(t)] = CR THEN SubSeq(t, 1, Len(t) - 1) ELSE t

\* str::lines: split at "\n" or "\r\n"; the final line need not be terminated,
\* and a final terminator opens no further (empty) line
RECURSIVE StrLines(_)
StrLines(s) ==
    IF Len(s) = 0 THEN <<>>
    ELSE LET n == FirstNL(s)
         IN  IF n = 0 THEN <<s>>
             ELSE <<StripCR(SubSeq(s, 1, n - 1))>> \o StrLines(SubSeq(s, n + 1, Len(s)))

\* the amount lex adds to byte_offset after a line
OffsetStep(text) == Len(text) + 1

\* byte_offset of the i-th (1-based) line: the steps of the lines before it
RECURSIVE OffsetOf(_, _)
OffsetOf(texts, i) ==
    IF i <= 1 THEN 0 ELSE OffsetOf(texts, i - 1) + OffsetStep(texts[i - 1])

lex(src) ==
    LET texts == StrLines(src)
    IN  [ i \in 1..Len(texts) |->
            [ line_type   |-> classify_line(texts[i]),
              text        |-> texts[i],
              line_number |-> i - 1,
              byte_offset |-> OffsetOf(texts, i) ] ]

(***************************************************************************)
(* Signature policy                                                        *)
(***************************************************************************)
\* the closure of has_await
AwaitLine(line) ==
    /\ line.line_type = "Python"
    /\ LET text == Trim(line.text)
       IN  ~StartsWith(text, <<"#">>) /\ (AWAIT_START(text) \/ AWAIT_INLINE(text))

\* the closure of has_async_construct
AsyncConstructLine(line) ==
    /\ line.line_type = "Control"
    /\ (ASYNC_FOR(line.text) \/ ASYNC_WITH(line.text))

has_await(ls) == \E i \in 1..Len(ls) : AwaitLine(ls[i])

has_async_construct(ls) == \E i \in 1..Len(ls) : AsyncConstructLine(ls[i])

(***************************************************************************)
(* Structure extractor                                                     *)
(***************************************************************************)
\* the loop of find_structure from line index i (0-based) on
RECURSIVE FindFrom(_, _, _, _, _, _)
FindFrom(ls, i, lead, pars, seen_param, bstart) ==
    IF i >= Len(ls) THEN [leading |-> lead, params |-> pars, body_start |-> bstart]
    ELSE LET line == ls[i + 1]
             trimmed == Trim(line.text)
         IN  IF Len(trimmed) = 0 /\ ~seen_param
                 THEN FindFrom(ls, i + 1, Append(lead, i), pars, seen_param, i + 1)
             ELSE IF ~seen_param /\ StartsWith(trimmed, <<"#">>)
                 THEN FindFrom(ls, i + 1, Append(lead, i), pars, seen_param, i + 1)
             ELSE IF line.line_type = "Python" /\ TYPE_ANNOTATION(trimmed)
                 THEN FindFrom(ls, i + 1, lead, Append(pars, i), TRUE, i + 1)
             ELSE [leading |-> lead, params |-> pars, body_start |-> bstart]

\* find_structure whose blank and comment branches do not advance body_start
find_structure_LeadingInBody(ls) ==
    LET st == FindFrom(ls, 0, <<>>, <<>>, FALSE, 0)
    IN  [st EXCEPT !.body_start =
            IF Len(st.params) = 0 THEN 0 ELSE st.params[Len(st.params)] + 1]

find_structure(ls) == FindFrom(ls, 0, <<>>, <<>>, FALSE, 0)

\* length of text without trailing "\r" and "\n" characters
TrimEndCRLF(text) ==
    CHOOSE n \in 0..Len(text) :
        /\ \A k \in (n + 1)..Len(text) : text[k] \in {CR, NL}
        /\ (n = 0 \/ text[n] \notin {CR, NL})

content_bounds(text) == [start |-> LeadSpTab(text), end |-> TrimEndCRLF(text)]

(***************************************************************************)
(* Inputs                                                                  *)
(***************************************************************************)
\* largest number of source lines of an input
MaxLines == 3

\* the line texts inputs are built from: every line category, a blank line,
\* a comment, parameters, an indented line, and the await / async forms
LineTexts ==
    { <<>>,                                           \* blank
      <<"#">>,                                        \* comment
      <<"a",":","b">>,                                \* parameter
      <<SP,"a",":","a","w","a","i","t",SP,"b">>,      \* indented parameter / statement with inline await
      <<"x">>,                                        \* statement
      <<SP,"<">>,                                     \* indented markup
      <<"i","f",":">>,                                \* block header
      <<"e","l","s","e",":">>,                        \* dedent header
      <<"m","a","t","c","h",":">>,                    \* match header
      <<"c","a","s","e",":">>,                        \* case header
      <<"e","n","d">>,                                \* end marker
      <<"a","s","y","n","c",SP,"f","o","r",SP,":">> } \* async for header

LF == <<NL>>
CRLF == <<CR, NL>>

\* line terminator, and whether the last line is terminated
Endings ==
    { [term |-> LF, final |-> TRUE],
      [term |-> LF, final |-> FALSE],
      [term |-> CRLF, final |-> TRUE] }

\* the lines joined by the terminator, the last one terminated or not
RECURSIVE BuildSource(_, _, _)
BuildSource(texts, term, final) ==
    IF Len(texts) = 0 THEN <<>>
    ELSE IF Len(texts) = 1 THEN texts[1] \o (IF final THEN term ELSE <<>>)
    ELSE texts[1] \o term \o BuildSource(Tail(texts), term, final)

Sources ==
    { BuildSource(texts, e.term, e.final) :
        texts \in UNION { [1..n -> LineTexts] : n \in 0..MaxLines },
        e \in Endings }

(***************************************************************************)
(* transpile_ext                                                           *)
(***************************************************************************)
\* a mapping whose src_line counts lines from 1
SourceMapping_LineFromOne(gl, gc, sl, sc) ==
    [gen_line |-> gl, gen_col |-> gc, src_line |-> sl + 1, src_col |-> sc]

SourceMapping(gl, gc, sl, sc) ==
    [gen_line |-> gl, gen_col |-> gc, src_line |-> sl, src_col |-> sc]

PythonPiece(pre, suf, s, e) ==
    [prefix |-> pre, suffix |-> suf, src_start |-> s, src_end |-> e]

\* if let Some(ref mut p) = python_pieces { p.push(..) }
PushPieces(ps) ==
    python_pieces' = IF include_injection THEN python_pieces \o ps ELSE python_pieces

\* the two keywords the wrong way round
def_kw_Swapped == IF is_async THEN DefKw ELSE AsyncDefKw

def_kw == IF is_async THEN AsyncDefKw ELSE DefKw

Init ==
    /\ source \in Sources
    /\ include_injection \in BOOLEAN
    /\ pc = "start"
    /\ lines = <<>>
    /\ leading = <<>>
    /\ params = <<>>
    /\ body_start = 0
    /\ is_async = FALSE
    /\ output = <<>>
    /\ mappings = <<>>
    /\ python_pieces = <<>>
    /\ out_line = 0
    /\ level = 1
    /\ stack = <<>>
    /\ idx = 0
    /\ python_code = <<>>
    /\ emitted = <<>>
    /\ openers = <<>>
    /\ closed = {}
    /\ visits = <<>>
    /\ earlier = <<>>

\* where the pass stands
AtStart == pc = "start"
InLeading == pc = "leading" /\ idx < Len(leading)
AtSignature == pc = "leading" /\ idx >= Len(leading)
InBody == pc = "body" /\ idx < Len(lines)
AtFinish == pc = "body" /\ idx >= Len(lines)

\* lines 151-161: lex, find_structure and the async decision
Begin ==
    /\ AtStart
    /\ LET ls == lex(source)
           st == find_structure(ls)
       IN  /\ lines' = ls
           /\ leading' = st.leading
           /\ params' = st.params
           /\ body_start' = st.body_start
           /\ is_async' = (has_await(ls) \/ has_async_construct(ls))
    /\ pc' = "leading"
    /\ idx' = 0
    /\ UNCHANGED << earlier, source, include_injection, output, mappings, python_pieces,
                    out_line, level, stack, python_code, emitted, openers,
                    closed, visits >>

\* one generated line, with out_line += 1 inside the if-let of the pieces
Emit_IncInsideIfLet(text, mapping, pieces, kind, lvl, src) ==
    /\ output' = Append(output, text)
    /\ mappings' = Append(mappings, mapping)
    /\ PushPieces(pieces)
    /\ emitted' = Append(emitted, [kind |-> kind, lvl |-> lvl, src |-> src,
                                    level |-> level, stack |-> stack])
    /\ out_line' = IF include_injection THEN out_line + 1 ELSE out_line

\* one generated line: output.push, mappings.push, the pieces, out_line += 1
Emit(text, mapping, pieces, kind, lvl, src) ==
    /\ output' = Append(output, text)
    /\ mappings' = Append(mappings, mapping)
    /\ PushPieces(pieces)
    /\ emitted' = Append(emitted, [kind |-> kind, lvl |-> lvl, src |-> src,
                                    level |-> level, stack |-> stack])
    /\ out_line' = out_line + 1

\* the leading loop, a line with content (lines 166-182)
LeadingContent ==
    /\ InLeading
    /\ LET line == lines[leading[idx + 1] + 1]
           b == content_bounds(line.text)
       IN  /\ Len(Trim(line.text)) # 0
           /\ IF b.start > b.end
              THEN /\ pc' = "panic"       \* line.text[start..end] out of order
                   /\ UNCHANGED << output, mappings, python_pieces, emitted,
                                   out_line, idx, visits >>
              ELSE /\ Emit(Slice(line.text, b.start, b.end),
                           SourceMapping(out_line, 0, line.line_number, b.start),
                           << PythonPiece(<<>>, LF, line.byte_offset + b.start,
                                          line.byte_offset + b.end) >>,
                           "leading", 0, line.line_number)
                   /\ idx' = idx + 1
                   /\ visits' = Append(visits, line.line_number)
                   /\ pc' = pc
    /\ UNCHANGED << earlier, source, include_injection, lines, leading, params, body_start,
                    is_async, level, stack, python_code, openers, closed >>

\* the leading loop, an empty line (lines 183-199)
LeadingBlank ==
    /\ InLeading
    /\ LET line == lines[leading[idx + 1] + 1]
       IN  /\ Len(Trim(line.text)) = 0
           /\ Emit(<<>>,
                   SourceMapping(out_line, 0, line.line_number, 0),
                   << PythonPiece(<<>>, LF, line.byte_offset, line.byte_offset) >>,
                   "leading", 0, line.line_number)
           /\ visits' = Append(visits, line.line_number)
    /\ idx' = idx + 1
    /\ UNCHANGED << earlier, source, include_injection, pc, lines, leading, params,
                    body_start, is_async, level, stack, python_code, openers,
                    closed >>

\* the whole text of a parameter line, indentation included
ParamStr_Untrimmed(line) == line.text

\* the trimmed declaration text of a parameter line (lines 207-210)
ParamStr(line) ==
    LET b == content_bounds(line.text) IN Slice(line.text, b.start, b.end)

\* the injection piece of the i-th (1-based) parameter (lines 226-244)
ParamPiece(i) ==
    LET param == lines[params[i] + 1]
        b == content_bounds(param.text)
    IN  PythonPiece(IF i = 1 THEN def_kw \o FnOpen ELSE <<",", SP>>,
                    IF i = Len(params) THEN <<")", ":", NL>> ELSE <<>>,
                    param.byte_offset + b.start,
                    param.byte_offset + b.end)

\* function signature with parameters (lines 204-245, 270)
SignatureParams ==
    /\ AtSignature
    /\ Len(params) # 0
    /\ LET first == lines[params[1] + 1]
           param_strs == [ i \in 1..Len(params) |-> ParamStr(lines[params[i] + 1]) ]
       IN  IF \E i \in 1..Len(params) :
                 content_bounds(lines[params[i] + 1].text).start
                     > content_bounds(lines[params[i] + 1].text).end
           THEN /\ pc' = "panic"          \* p.text[s..e] out of order
                /\ UNCHANGED << output, mappings, python_pieces, emitted,
                                out_line, idx, visits >>
           ELSE /\ Emit(def_kw \o FnOpen \o Join(param_strs, <<",", SP>>) \o <<")", ":">>,
                        SourceMapping(out_line, Len(def_kw) + Len(FnOpen),
                                      first.line_number,
                                      content_bounds(first.text).start),
                        [ i \in 1..Len(params) |-> ParamPiece(i) ],
                        "header", 0, first.line_number)
                /\ visits' = visits \o [ i \in 1..Len(params) |-> params[i] ]
                /\ pc' = "body"
                /\ idx' = body_start
    /\ UNCHANGED << earlier, source, include_injection, lines, leading, params, body_start,
                    is_async, level, stack, python_code, openers, closed >>

\* the source offset the parameterless header is anchored at (lines 248-254)
body_offset ==
    IF body_start < Len(lines) THEN lines[body_start + 1].byte_offset
    ELSE IF Len(lines) # 0 THEN lines[Len(lines)].byte_offset
    ELSE 0

\* function signature without parameters (lines 246-270)
SignatureNoParams ==
    /\ AtSignature
    /\ Len(params) = 0
    /\ Emit(def_kw \o FnOpen \o <<")", ":">>,
            SourceMapping(out_line, 0, Min(body_start, SatSub(Len(lines), 1)), 0),
            << PythonPiece(def_kw \o FnOpen \o <<")", ":", NL>>, <<>>,
                           body_offset, body_offset) >>,
            "header", 0, body_start)
    /\ pc' = "body"
    /\ idx' = body_start
    /\ UNCHANGED << earlier, source, include_injection, lines, leading, params, body_start,
                    is_async, level, stack, python_code, openers, closed, visits >>

(***************************************************************************)
(* The body loop (lines 273-436)                                           *)
(***************************************************************************)
BodyLine == lines[idx + 1]
BodyBounds == content_bounds(BodyLine.text)
BodyTrimmed == Slice(BodyLine.text, BodyBounds.start, BodyBounds.end)
BodySrcStart == BodyLine.byte_offset + BodyBounds.start
BodySrcEnd == BodyLine.byte_offset + BodyBounds.end

\* a body iteration is under way on a line with content
AtBody(type) ==
    /\ InBody
    /\ BodyBounds.start < BodyBounds.end
    /\ BodyLine.line_type = type

\* no keyword is taken for a dedent keyword
is_dedent_Never == FALSE

is_dedent == \E kw \in DedentKeywords : StartsWith(BodyTrimmed, kw)
is_case == StartsWith(BodyTrimmed, KwCase)

\* what every body iteration does besides emitting
NextBodyLine ==
    /\ idx' = idx + 1
    /\ visits' = Append(visits, BodyLine.line_number)
    /\ UNCHANGED << earlier, source, include_injection, pc, lines, leading, params,
                    body_start, is_async, python_code >>

\* a blank line that leaves the loop iteration before out_line += 1
BodyBlank_NoInc ==
    /\ InBody
    /\ BodyBounds.start >= BodyBounds.end
    /\ output' = Append(output, <<>>)
    /\ mappings' = Append(mappings, SourceMapping(out_line, 0, BodyLine.line_number, 0))
    /\ PushPieces(<< PythonPiece(<<>>, LF, BodyLine.byte_offset, BodyLine.byte_offset) >>)
    /\ emitted' = Append(emitted, [kind |-> "blank", lvl |-> 0, src |-> BodyLine.line_number,
                                    level |-> level, stack |-> stack])
    /\ NextBodyLine
    /\ UNCHANGED << out_line, level, stack, openers, closed >>

\* a line without content (lines 280-298)
BodyBlank ==
    /\ InBody
    /\ BodyBounds.start >= BodyBounds.end
    /\ Emit(<<>>,
            SourceMapping(out_line, 0, BodyLine.line_number, 0),
            << PythonPiece(<<>>, LF, BodyLine.byte_offset, BodyLine.byte_offset) >>,
            "blank", 0, BodyLine.line_number)
    /\ NextBodyLine
    /\ UNCHANGED << level, stack, openers, closed >>

\* a dedent header printed with no floor
PrintLevel_NoFloor(lv) == SatSub(lv, 1)

\* let print_level = level.saturating_sub(1).max(1)
PrintLevel(lv) == Max(SatSub(lv, 1), 1)

\* else / elif / except / finally (lines 311-327)
BodyDedent ==
    /\ AtBody("Control")
    /\ is_dedent
    /\ LET print_level == PrintLevel(level)
       IN  Emit(Repeat(indent, print_level) \o BodyTrimmed,
                SourceMapping(out_line, Len(indent) * print_level,
                              BodyLine.line_number, BodyBounds.start),
                << PythonPiece(Repeat(indent, print_level), LF,
                               BodySrcStart, BodySrcEnd) >>,
                "dedent", print_level, BodyLine.line_number)
    /\ NextBodyLine
    /\ UNCHANGED << level, stack, openers, closed >>

\* a case that never closes the previous case
AutoClose_Never == FALSE

\* stack.last() == Some(&"case")
AutoClose == Len(stack) > 0 /\ stack[Len(stack)] = "case"

\* case (lines 328-349)
BodyCase ==
    /\ AtBody("Control")
    /\ ~is_dedent
    /\ is_case
    /\ LET auto == AutoClose
           stack1 == IF auto THEN SubSeq(stack, 1, Len(stack) - 1) ELSE stack
           open1 == IF auto THEN SubSeq(openers, 1, Len(openers) - 1) ELSE openers
           level1 == IF auto THEN SatSub(level, 1) ELSE level
       IN  /\ Emit(Repeat(indent, level1) \o BodyTrimmed,
                   SourceMapping(out_line, Len(indent) * level1,
                                 BodyLine.line_number, BodyBounds.start),
                   << PythonPiece(Repeat(indent, level1), LF,
                                  BodySrcStart, BodySrcEnd) >>,
                   "case", level1, BodyLine.line_number)
           /\ stack' = Append(stack1, "case")
           /\ openers' = Append(open1, out_line)
           /\ level' = level1 + 1
    /\ NextBodyLine
    /\ UNCHANGED closed

\* any other control header (lines 350-368)
BodyOpen ==
    /\ AtBody("Control")
    /\ ~is_dedent
    /\ ~is_case
    /\ Emit(Repeat(indent, level) \o BodyTrimmed,
            SourceMapping(out_line, Len(indent) * level,
                          BodyLine.line_number, BodyBounds.start),
            << PythonPiece(Repeat(indent, level), LF, BodySrcStart, BodySrcEnd) >>,
            "open", level, BodyLine.line_number)
    /\ stack' = Append(stack, IF StartsWith(BodyTrimmed, KwMatch) THEN "match" ELSE "block")
    /\ openers' = Append(openers, out_line)
    /\ level' = level + 1
    /\ NextBodyLine
    /\ UNCHANGED closed

\* the while loop without its level = level.saturating_sub(1)
RECURSIVE PopCases_KeepLevel(_, _)
PopCases_KeepLevel(st, lv) ==
    IF Len(st) > 0 /\ st[Len(st)] = "case"
    THEN PopCases_KeepLevel(SubSeq(st, 1, Len(st) - 1), lv)
    ELSE [stack |-> st, level |-> lv]

\* while stack.last() == Some(&"case") { stack.pop(); level = level.saturating_sub(1) }
RECURSIVE PopCases(_, _)
PopCases(st, lv) ==
    IF Len(st) > 0 /\ st[Len(st)] = "case"
    THEN PopCases(SubSeq(st, 1, Len(st) - 1), SatSub(lv, 1))
    ELSE [stack |-> st, level |-> lv]

\* an `end` that pops one entry only, without the while loop over `case`
EndPop_OnePop(st, lv) ==
    LET b == IF Len(st) # 0
             THEN [stack |-> SubSeq(st, 1, Len(st) - 1), level |-> SatSub(lv, 1)]
             ELSE [stack |-> st, level |-> lv]
    IN  [stack |-> b.stack, level |-> Max(b.level, 1)]

\* the stack and level an `end` leaves (lines 372-380)
EndPop(st, lv) ==
    LET c == PopCases(st, lv)
        b == IF Len(c.stack) # 0
             THEN [stack |-> SubSeq(c.stack, 1, Len(c.stack) - 1),
                   level |-> SatSub(c.level, 1)]
             ELSE c
    IN  [stack |-> b.stack, level |-> Max(b.level, 1)]

\* the mapping of the `pass` line of an `end` (lines 382-387)
EndMapping == SourceMapping(out_line, 0, BodyLine.line_number, 0)

\* end (lines 371-396)
BodyEnd ==
    /\ AtBody("End")
    /\ LET e == EndPop(stack, level)
       IN  /\ stack' = e.stack
           /\ level' = e.level
           /\ openers' = SubSeq(openers, 1, Len(e.stack))
           /\ closed' = closed \cup
                 { [hdr |-> openers[j], end |-> out_line, kind |-> stack[j]] :
                     j \in (Len(e.stack) + 1)..Len(stack) }
           /\ Emit(Repeat(indent, e.level) \o PassKw,
                   EndMapping,
                   << PythonPiece(Repeat(indent, e.level) \o PassKw \o LF, <<>>,
                                  BodyLine.byte_offset, BodyLine.byte_offset) >>,
                   "end", e.level, BodyLine.line_number)
    /\ NextBodyLine

\* markup (lines 398-414)
BodyHtml ==
    /\ AtBody("Html")
    /\ Emit(Repeat(indent, level) \o TQuoteOpen \o BodyTrimmed \o TQuoteClose,
            SourceMapping(out_line, Len(indent) * level + 4,
                          BodyLine.line_number, BodyBounds.start),
            << PythonPiece(Repeat(indent, level) \o TQuoteOpen, TQuoteClose \o LF,
                           BodySrcStart, BodySrcEnd) >>,
            "html", level, BodyLine.line_number)
    /\ NextBodyLine
    /\ UNCHANGED << level, stack, openers, closed >>

\* statement (lines 416-432)
BodyPython ==
    /\ AtBody("Python")
    /\ Emit(Repeat(indent, level) \o BodyTrimmed,
            SourceMapping(out_line, Len(indent) * level,
                          BodyLine.line_number, BodyBounds.start),
            << PythonPiece(Repeat(indent, level), LF, BodySrcStart, BodySrcEnd) >>,
            "python", level, BodyLine.line_number)
    /\ NextBodyLine
    /\ UNCHANGED << level, stack, openers, closed >>

\* output.join("\n") alone
FinalCode_NoNewline(out) == Join(out, LF)

\* output.join("\n") and the trailing newline (lines 438-441)
FinalCode(out) ==
    LET code == Join(out, LF)
    IN  IF Len(code) # 0 /\ code[Len(code)] # NL THEN code \o LF ELSE code

\* lines 438-447
Finish ==
    /\ AtFinish
    /\ python_code' = FinalCode(output)
    /\ pc' = "done"
    /\ UNCHANGED << earlier, source, include_injection, lines, leading, params, body_start,
                    is_async, output, mappings, python_pieces, out_line, level,
                    stack, idx, emitted, openers, closed, visits >>

Next ==
    \/ Begin
    \/ LeadingContent
    \/ LeadingBlank
    \/ SignatureParams
    \/ SignatureNoParams
    \/ BodyBlank
    \/ BodyDedent
    \/ BodyCase
    \/ BodyOpen
    \/ BodyEnd
    \/ BodyHtml
    \/ BodyPython
    \/ Finish

Spec == Init /\ [][Next]_vars

Done == pc = "done"

\* transpile: the same source through transpile_ext again, without the pieces;
\* the earlier call's result and per-line history are kept for comparison
Rerun ==
    /\ Done
    /\ earlier = <<>>
    /\ include_injection
    /\ earlier' = << [include_injection |-> include_injection,
                      python_code |-> python_code,
                      mappings |-> mappings,
                      python_pieces |-> python_pieces,
                      output |-> output,
                      emitted |-> emitted,
                      level |-> level,
                      stack |-> stack] >>
    /\ include_injection' = FALSE
    /\ pc' = "start"
    /\ lines' = <<>>
    /\ leading' = <<>>
    /\ params' = <<>>
    /\ body_start' = 0
    /\ is_async' = FALSE
    /\ output' = <<>>
    /\ mappings' = <<>>
    /\ python_pieces' = <<>>
    /\ out_line' = 0
    /\ level' = 1
    /\ stack' = <<>>
    /\ idx' = 0
    /\ python_code' = <<>>
    /\ emitted' = <<>>
    /\ openers' = <<>>
    /\ closed' = {}
    /\ visits' = <<>>
    /\ UNCHANGED source

\* transpile_ext(source, true) followed by transpile(source)
PairInit == Init /\ include_injection

PairNext ==
    \/ Next
    \/ Rerun

PairSpec == PairInit /\ [][PairNext]_vars

(***************************************************************************)
(* Vocabulary of the properties                                            *)
(***************************************************************************)
\* number of lines of a text: its newlines, plus one for a final
\* unterminated fragment
NumLines(code) ==
    Cardinality({ k \in 1..Len(code) : code[k] = NL })
        + (IF Len(code) # 0 /\ code[Len(code)] # NL THEN 1 ELSE 0)

\* prefix, source[src_start..src_end) and suffix of every piece, in order
RECURSIVE ConcatPieces(_)
ConcatPieces(ps) ==
    IF Len(ps) = 0 THEN <<>>
    ELSE ps[1].prefix \o Slice(source, ps[1].src_start, ps[1].src_end)
           \o ps[1].suffix \o ConcatPieces(Tail(ps))

\* the pieces' ranges can be sliced out of the source
PiecesInRange ==
    \A k \in 1..Len(python_pieces) :
        /\ 0 <= python_pieces[k].src_start
        /\ python_pieces[k].src_start <= python_pieces[k].src_end
        /\ python_pieces[k].src_end <= Len(source)

\* generated lines (1-based positions in output) that come from a body line with content
BodyKinds == {"dedent", "case", "open", "end", "html", "python"}
BodyGen == { k \in 1..Len(emitted) : emitted[k].kind \in BodyKinds }

\* indentation width of the k-th generated line
GenIndent(k) == LeadSpTab(output[k])

\* the source line the k-th generated line was produced from
SrcLineOf(k) == lines[emitted[k].src + 1]

\* the first generated line with content after position h, 0 if there is none
FirstContentAfter(h) ==
    IF \E k \in (h + 1)..Len(output) : Len(output[k]) # 0
    THEN CHOOSE k \in (h + 1)..Len(output) :
            /\ Len(output[k]) # 0
            /\ \A j \in (h + 1)..(k - 1) : Len(output[j]) = 0
    ELSE 0

(***************************************************************************)
(* C1: for every input the number of source mappings equals the number of  *)
(* lines of python_code (newlines, plus one for an unterminated final      *)
(* fragment), including inputs whose last line is blank.                   *)
(* Fails: a blank last body line is an empty last entry of output, the     *)
(* join already ends in a newline and no terminator is added for it.       *)
(***************************************************************************)
C1_MappingPerGeneratedLine ==
    Done => Len(mappings) = NumLines(python_code)

(***************************************************************************)
(* C2: with include_injection, the pieces' prefix, source slice and suffix *)
(* concatenated in order are python_code, byte for byte, for LF and CRLF   *)
(* inputs and for a blank last line.                                       *)
(* Fails: byte_offset counts one byte per terminator, and the piece of a   *)
(* blank last line carries a newline python_code does not have.            *)
(***************************************************************************)
C2_PiecesReconstructCode ==
    (Done /\ include_injection) =>
        (PiecesInRange /\ ConcatPieces(python_pieces) = python_code)

(***************************************************************************)
(* C3: every block opened by a block-opening header and closed by `end`    *)
(* has a non-empty body: the first generated line with content after the   *)
(* header is indented deeper than the header.                              *)
(* Fails: the `pass` of an `end` is emitted after the level was lowered,   *)
(* at the header's own indentation.                                        *)
(***************************************************************************)
C3_ClosedBlockHasBody ==
    \A b \in closed :
        LET f == FirstContentAfter(b.hdr + 1)
        IN  f # 0 /\ GenIndent(f) > GenIndent(b.hdr + 1)

(***************************************************************************)
(* C4: throughout the body, for every sequence of line kinds, level >= 1   *)
(* and every generated body line with content starts with exactly `lvl`    *)
(* repetitions of the 4-space unit, lvl >= 1, where lvl is the level the   *)
(* line's category prints at (level, or level - 1 floored at 1 for         *)
(* else/elif/except/finally).                                              *)
(***************************************************************************)
C4_LevelAndIndent ==
    /\ level >= 1
    /\ \A k \in BodyGen :
          /\ emitted[k].lvl >= 1
          /\ StartsWith(output[k], Repeat(indent, emitted[k].lvl))
          /\ GenIndent(k) = Len(indent) * emitted[k].lvl
    /\ LET n == Len(emitted)
       IN  (n # 0 /\ n \in BodyGen) =>
              emitted[n].lvl =
                 CASE emitted[n].kind \in {"open", "case"} -> level - 1
                   [] emitted[n].kind = "dedent" -> Max(level - 1, 1)
                   [] OTHER -> level

\* a stray `end`, then a dedent header at level 1, then a case with no match
C4_Witness ==
    /\ Done
    /\ closed = {}
    /\ \E i, j, k \in BodyGen :
          /\ emitted[i].kind = "end"
          /\ emitted[j].kind = "dedent" /\ emitted[j].lvl = 1
          /\ emitted[k].kind = "case"

(***************************************************************************)
(* C5: the entry at index k of source_mappings has gen_line = k, across    *)
(* leading lines, the function header and all body lines.                  *)
(***************************************************************************)
C5_GenLineIsIndex ==
    /\ Len(mappings) = Len(output)
    /\ \A k \in 1..Len(mappings) : mappings[k].gen_line = k - 1

\* a leading line, the header and a blank body line have been mapped
C5_Witness ==
    /\ Done
    /\ Len(leading) # 0
    /\ \E k \in 1..Len(emitted) : emitted[k].kind = "blank"
    /\ BodyGen # {}

\* the lines processed so far are lines 0, 1, 2, ... in order, each once
VisitsInOrder == \A k \in 1..Len(visits) : visits[k] = k - 1

VisitsEachOnce == VisitsInOrder /\ Len(visits) = Len(lines)

\* some branch of the pass applies: the guards of the actions, which are the
\* conditions of the loops, of the if/else chains and of the match
CanStep ==
    \/ AtStart
    \/ InLeading
    \/ AtSignature
    \/ InBody /\ BodyBounds.start >= BodyBounds.end
    \/ \E type \in {"Control", "End", "Html", "Python"} : AtBody(type)
    \/ AtFinish

(***************************************************************************)
(* C6: transpile is total: no failure is reachable; until it returns, the  *)
(* pass always has a next step; the source lines are processed one after   *)
(* the other, none twice; and it returns having processed every line.      *)
(***************************************************************************)
C6_Total ==
    /\ pc # "panic"
    /\ (Done \/ CanStep)
    /\ VisitsInOrder
    /\ Len(visits) <= Len(lines)
    /\ (Done => VisitsEachOnce)

\* a stray `end` followed by a block left open
C6_Witness ==
    /\ Done
    /\ VisitsEachOnce
    /\ stack # <<>>
    /\ closed = {}
    /\ \E k \in BodyGen : emitted[k].kind = "end"

(***************************************************************************)
(* C7: a block header emitted at level L whose body is made of markup and  *)
(* statement lines and which is closed by `end`: the header is indented L  *)
(* units, the body lines L + 1 units, and the closing `pass` L + 1 units.  *)
(* Fails: the `pass` is emitted at the level the `end` leaves, L.          *)
(***************************************************************************)
C7_PassAtBodyIndent ==
    \A b \in closed :
        LET h == b.hdr + 1
            e == b.end + 1
            L == emitted[h].lvl
        IN  (e > h + 1 /\ \A k \in (h + 1)..(e - 1) : emitted[k].kind \in {"html", "python"})
            => /\ GenIndent(h) = Len(indent) * L
               /\ \A k \in (h + 1)..(e - 1) : GenIndent(k) = Len(indent) * (L + 1)
               /\ GenIndent(e) = Len(indent) * (L + 1)

CaseOnCase ==
    /\ AtBody("Control")
    /\ ~is_dedent
    /\ is_case
    /\ Len(stack) # 0
    /\ stack[Len(stack)] = "case"

(***************************************************************************)
(* C8: whenever a `case` header is processed while the top of the stack is *)
(* `case`, the new `case` is emitted at the indentation of the header that *)
(* pushed that entry, and the level and the stack depth after it are those *)
(* that held after the previous case: it is not nested inside it.          *)
(***************************************************************************)
C8_CaseAutoClose ==
    [][ CaseOnCase =>
          /\ level' = level
          /\ Len(stack') = Len(stack)
          /\ stack'[Len(stack')] = "case"
          /\ Len(output') = Len(output) + 1
          /\ LeadSpTab(output'[Len(output')]) = GenIndent(openers[Len(openers)] + 1) ]_vars

\* two case headers in a row have been emitted, at the same indentation
C8_Witness ==
    LET n == Len(emitted)
    IN  /\ n >= 2
        /\ emitted[n].kind = "case"
        /\ emitted[n - 1].kind = "case"
        /\ GenIndent(n) = GenIndent(n - 1)
        /\ Len(stack) # 0

BodyNeedsAsync ==
    \E i \in (body_start + 1)..Len(lines) :
        AwaitLine(lines[i]) \/ AsyncConstructLine(lines[i])

\* the generated function header
HeaderLine == output[Len(leading) + 1]

(***************************************************************************)
(* C9: the header says `async def` if and only if some line of the body    *)
(* (from body_start on) is a statement that awaits or an `async for` /     *)
(* `async with` header; lines before the body do not count.                *)
(* Fails: has_await and has_async_construct scan every line, parameter     *)
(* declarations included.                                                  *)
(***************************************************************************)
C9_AsyncIffBodyAwaits ==
    Done => (StartsWith(HeaderLine, AsyncDefKw) <=> BodyNeedsAsync)

(***************************************************************************)
(* C10: for every body line with content, of every category, gen_col is    *)
(* the indentation width emitted on the generated line (plus 4 for markup) *)
(* and src_col is the column of the first non-whitespace character of the  *)
(* source line.                                                            *)
(* Fails: the mapping of an `end` has gen_col 0 and src_col 0.             *)
(***************************************************************************)
C10_MappingColumns ==
    \A k \in BodyGen :
        /\ mappings[k].gen_col =
              GenIndent(k) + (IF emitted[k].kind = "html" THEN 4 ELSE 0)
        /\ mappings[k].src_col = LeadWhite(SrcLineOf(k).text)

\* the python_pieces of a result are Some exactly when the call asked for them
\* (Some always holds at least the piece of the function header)
PiecesPresent(pieces) == Len(pieces) # 0

(***************************************************************************)
(* C11: asking for the pieces never changes generation.  Calling           *)
(* transpile_ext(source, true) and then transpile_ext(source, false) on    *)
(* the same source: line by line the second call emits the same generated  *)
(* line with the same mapping from the same level and stack as the first;  *)
(* when it is done python_code, source_mappings, level and stack are       *)
(* equal; and python_pieces is present in the first result and absent in   *)
(* the second.                                                             *)
(***************************************************************************)
C11_FlagLeavesGenerationAlone ==
    Len(earlier) = 1 =>
        LET e == earlier[1]
        IN  /\ e.include_injection /\ ~include_injection
            /\ Len(emitted) <= Len(e.emitted)
            /\ \A k \in 1..Len(emitted) :
                  /\ output[k] = e.output[k]
                  /\ mappings[k] = e.mappings[k]
                  /\ emitted[k].level = e.emitted[k].level
                  /\ emitted[k].stack = e.emitted[k].stack
            /\ PiecesPresent(e.python_pieces)
            /\ ~PiecesPresent(python_pieces)
            /\ Done => /\ python_code = e.python_code
                       /\ mappings = e.mappings
                       /\ level = e.level
                       /\ stack = e.stack

C11_Witness ==
    /\ Len(earlier) = 1
    /\ Done
    /\ Len(emitted) >= 3
    /\ stack # <<>>
    /\ Len(earlier[1].python_pieces) >= 3

\* the generated lines that are function headers
HeaderLines == { k \in 1..Len(emitted) : emitted[k].kind = "header" }

\* the declaration of the i-th (1-based) parameter: its source line from the
\* first non-whitespace character on
DeclText(i) ==
    LET t == lines[params[i] + 1].text IN SubSeq(t, LeadWhite(t) + 1, Len(t))

EmptyInput == Len(source) = 0

(***************************************************************************)
(* C13: for empty input python_code is the zero-argument function header   *)
(* `def __hyper_template__():` and its terminating newline, nothing else,  *)
(* and source_mappings has exactly one entry.                              *)
(***************************************************************************)
C13_EmptyInputHeader ==
    (Done /\ EmptyInput) =>
        /\ python_code = DefKw \o FnOpen \o <<")", ":">> \o <<NL>>
        /\ Len(mappings) = 1

C13_Witness ==
    /\ Done
    /\ EmptyInput
    /\ Len(mappings) = 1

(***************************************************************************)
(* C14 as stated: for empty input the generated text is empty.             *)
(***************************************************************************)
C14_EmptyInputEmptyCode ==
    (Done /\ EmptyInput) => Len(python_code) = 0

(***************************************************************************)
(* C14, amended: for empty input transpile returns a result (it does not   *)
(* fail) whose generated text is not empty: it is one line, the function   *)
(* header.                                                                 *)
(***************************************************************************)
C14_EmptyInputOneLine ==
    EmptyInput =>
        /\ pc # "panic"
        /\ Done => /\ Len(python_code) # 0
                   /\ NumLines(python_code) = 1
                   /\ StartsWith(python_code, DefKw \o FnOpen)
                   /\ Len(output) = 1

C14_Witness ==
    /\ Done
    /\ EmptyInput
    /\ Len(python_code) # 0

\* the number of `case` entries at the top of the stack
TrailingCases(st) ==
    CHOOSE n \in 0..Len(st) :
        /\ \A j \in (Len(st) - n + 1)..Len(st) : st[j] = "case"
        /\ (n < Len(st) => st[Len(st) - n] # "case")

\* the number of entries an `end` is to remove: the trailing cases and one more
EndRemoves(st) ==
    TrailingCases(st) + (IF Len(st) > TrailingCases(st) THEN 1 ELSE 0)

(***************************************************************************)
(* C15: the step that processes an `end` line, in any state, removes the   *)
(* trailing `case` entries of the stack and one further entry if there is  *)
(* one, lowers level by one per removed entry, floored at 1; with an empty *)
(* stack, stack and level stay as they are (level 1).  The level after it  *)
(* is at most max(1, L - 1), L the level the preceding body line left, and *)
(* exactly one line is generated, `pass` at the resulting level.           *)
(***************************************************************************)
C15_EndPops ==
    [][ AtBody("End") =>
          /\ stack' = SubSeq(stack, 1, Len(stack) - EndRemoves(stack))
          /\ level' = Max(level - EndRemoves(stack), 1)
          /\ (Len(stack) = 0 => stack' = stack /\ level' = level /\ level = 1)
          /\ level' <= Max(1, level - 1)
          /\ output' = Append(output, Repeat(indent, level') \o PassKw)
      ]_vars

\* an `end` has closed a case clause together with the block around it
C15_Witness ==
    \E a \in closed : \E b \in closed :
        /\ a.kind = "case"
        /\ b.kind # "case"
        /\ a.end = b.end
        /\ emitted[a.end + 1].kind = "end"

\* the body line at hand is a control header that starts with else, elif,
\* except or finally
AtDedentHeader ==
    /\ AtBody("Control")
    /\ \E kw \in {KwElse, KwElif, KwExcept, KwFinally} :
          StartsWith(Trim(BodyLine.text), kw)

(***************************************************************************)
(* C16: the step that processes an else / elif / except / finally header,  *)
(* in any state (level 1 with an empty stack included), generates the      *)
(* header at indentation max(level - 1, 1) and leaves level and the block  *)
(* stack as they are; the line after it is generated from the same level   *)
(* and stack.                                                              *)
(***************************************************************************)
C16_DedentFrame ==
    /\ [][ AtDedentHeader =>
              /\ level' = level
              /\ stack' = stack
              /\ output' = Append(output,
                                  Repeat(indent, Max(level - 1, 1)) \o Trim(BodyLine.text))
              /\ LeadSpTab(output'[Len(output')]) = Len(indent) * Max(level - 1, 1)
          ]_vars
    /\ [](\A k \in 1..(Len(emitted) - 1) :
            emitted[k].kind = "dedent" =>
                /\ emitted[k + 1].level = emitted[k].level
                /\ emitted[k + 1].stack = emitted[k].stack)

\* a dedent header met at level 1 with an empty stack, and a line after it
C16_Witness ==
    \E k \in 1..(Len(emitted) - 1) :
        /\ emitted[k].kind = "dedent"
        /\ emitted[k].level = 1
        /\ emitted[k].stack = <<>>
        /\ emitted[k + 1].kind \in {"python", "html", "open"}

\* line i (0-based) is blank or a `#` comment
IsLeadingText(i) ==
    LET t == Trim(lines[i + 1].text)
    IN  Len(t) = 0 \/ StartsWith(t, <<"#">>)

\* line i (0-based) is a Statement line of the form `identifier : rest`
IsParamText(i) ==
    /\ lines[i + 1].line_type = "Python"
    /\ TYPE_ANNOTATION(Trim(lines[i + 1].text))

(***************************************************************************)
(* C17: find_structure splits the lines into three contiguous runs in      *)
(* order: the leading lines 0 .. nl-1, each blank or a comment, the        *)
(* parameter lines nl .. nl+np-1, each a Statement `identifier : rest`,    *)
(* and the body from body_start = nl + np on.  The body begins at the      *)
(* first line that is not a parameter and, when no parameter precedes it,  *)
(* not a blank or comment line either; without parameters it begins right  *)
(* after the leading lines, at line 0 when there are none.                 *)
(***************************************************************************)
C17_ThreeRuns ==
    pc # "start" =>
        LET nl == Len(leading)
            np == Len(params)
        IN  /\ leading = [ k \in 1..nl |-> k - 1 ]
            /\ params = [ k \in 1..np |-> nl + k - 1 ]
            /\ body_start = nl + np
            /\ body_start <= Len(lines)
            /\ \A k \in 1..nl : IsLeadingText(leading[k])
            /\ \A k \in 1..np : IsParamText(params[k])
            /\ body_start < Len(lines) =>
                  /\ ~IsParamText(body_start)
                  /\ (np = 0 => ~IsLeadingText(body_start))

\* leading lines, then parameters, then a body that starts with a blank line
C17_Witness ==
    /\ pc # "start"
    /\ Len(leading) >= 1
    /\ Len(params) >= 1
    /\ body_start < Len(lines)
    /\ IsLeadingText(body_start)

(***************************************************************************)
(* C18: for every line of lex(source), byte_offset is the position in the  *)
(* source at which the line begins: the source bytes                       *)
(* [byte_offset, byte_offset + len(text)) are the line's text, whether or  *)
(* not the last line is terminated and whether lines end in LF or in CRLF. *)
(***************************************************************************)
C18_ByteOffsetIsLineStart ==
    pc # "start" =>
        \A i \in 1..Len(lines) :
            /\ lines[i].byte_offset + Len(lines[i].text) <= Len(source)
            /\ Slice(source, lines[i].byte_offset,
                     lines[i].byte_offset + Len(lines[i].text)) = lines[i].text

(***************************************************************************)
(* C19: at every point of body generation level = 1 + the number of        *)
(* entries on the block stack; hence where the code subtracts saturating   *)
(* at 0 or floors at 1 (the auto-close of a case, the pops of an `end`)    *)
(* the plain difference is already at least 1.                             *)
(***************************************************************************)
C19_LevelIsStackDepth ==
    /\ level = 1 + Len(stack)
    /\ AtBody("End") => level - EndRemoves(stack) >= 1
    /\ CaseOnCase => level - 1 >= 1

\* a stray `end` on the empty stack has been processed and a block is open
C19_Witness ==
    /\ \E k \in 1..Len(emitted) :
          emitted[k].kind = "end" /\ emitted[k].stack = <<>>
    /\ Len(stack) >= 1
    /\ pc = "done"

(***************************************************************************)
(* C20: when python_pieces is present, every piece has                     *)
(* 0 <= src_start <= src_end <= len(source), and of two consecutive pieces *)
(* the first ends no later than the second starts; also for inputs without *)
(* parameters that consist of leading comment and blank lines only.        *)
(***************************************************************************)
C20_PiecesOrdered ==
    include_injection =>
        /\ \A i \in 1..Len(python_pieces) :
              /\ 0 <= python_pieces[i].src_start
              /\ python_pieces[i].src_start <= python_pieces[i].src_end
              /\ python_pieces[i].src_end <= Len(source)
        /\ \A i \in 1..(Len(python_pieces) - 1) :
              python_pieces[i].src_end <= python_pieces[i + 1].src_start

\* the numbers (0-based) of the leading lines and of the body lines
OwnLines ==
    { leading[k] : k \in 1..Len(leading) } \cup { i \in 0..(Len(lines) - 1) : i >= body_start }

\* the mapping entries (1-based positions) whose src_line is i
EntriesFor(i) == { k \in 1..Len(mappings) : mappings[k].src_line = i }

\* src_line never decreases along source_mappings
SrcLineMonotone ==
    \A k \in 1..(Len(mappings) - 1) : mappings[k].src_line <= mappings[k + 1].src_line

\* the parameter lines have no entry but the header's, which names the first
ParamsShareHeader ==
    /\ \A k \in 1..Len(params) : EntriesFor(params[k]) \subseteq HeaderLines
    /\ Len(params) # 0 => EntriesFor(params[1]) = HeaderLines

MappingCount == Len(mappings) = Len(lines) - Len(params) + 1

(***************************************************************************)
(* C21 as stated: in the result src_line is non-decreasing along           *)
(* source_mappings, every leading line and every body line has exactly one *)
(* mapping entry whose src_line is its own line number, the parameter      *)
(* lines share the single header entry, and len(source_mappings) =         *)
(* (number of source lines) - (number of parameter lines) + 1.             *)
(***************************************************************************)
C21_SourceMapCovers ==
    Done =>
        /\ SrcLineMonotone
        /\ \A i \in OwnLines : Cardinality(EntriesFor(i)) = 1
        /\ ParamsShareHeader
        /\ MappingCount

(***************************************************************************)
(* C21, amended: src_line is non-decreasing along source_mappings; every   *)
(* leading line and every body line has exactly one mapping entry besides  *)
(* the function header's whose src_line is its own line number; with       *)
(* parameters the header's entry names the first parameter line and the    *)
(* parameter lines have no other entry; without parameters the header's    *)
(* entry names the body-start line (the last line when there is no body,   *)
(* line 0 for the empty input), which so has two entries; and              *)
(* len(source_mappings) = (source lines) - (parameter lines) + 1.          *)
(***************************************************************************)
C21_SourceMapCoversBesidesHeader ==
    Done =>
        LET h == Len(leading) + 1
        IN  /\ SrcLineMonotone
            /\ HeaderLines = {h}
            /\ \A i \in OwnLines : Cardinality(EntriesFor(i) \ {h}) = 1
            /\ ParamsShareHeader
            /\ Len(params) = 0 =>
                  mappings[h].src_line =
                      IF body_start < Len(lines) THEN body_start
                      ELSE IF Len(lines) # 0 THEN Len(lines) - 1
                      ELSE 0
            /\ MappingCount

\* leading lines, no parameters, a body: the first body line has the header's
\* entry and its own
C21_Witness ==
    /\ Done
    /\ Len(leading) >= 1
    /\ Len(params) = 0
    /\ body_start < Len(lines)
    /\ Cardinality(EntriesFor(body_start)) = 2
====
